---- MODULE Spec2Model ----
(***************************************************************************)
(* Internal-orders ledger (src/App.tsx, first App component, lines 13-412, *)
(* with the order form of src/components/OrderForm.tsx).                    *)
(*                                                                         *)
(* Text values (item, client, section, quantity, commercial, orderNumber)  *)
(* are sequences of one-character strings, so that toString, trimming and  *)
(* emptiness are computed and not assumed.  An order is a function from    *)
(* field names to values; a field the object does not have is a name that  *)
(* is not in its DOMAIN.                                                   *)
(***************************************************************************)
EXTENDS Integers, Sequences, FiniteSets

\* ---------------------------------------------------------------- bounds
\* Largest ledger the model builds (handleAddOrder is not taken beyond it).
MaxOrders == 3
\* Number of identifiers crypto.randomUUID() hands out in one behaviour.
MaxIds == 3

VARIABLES
  orders,      \* React state `orders` (App.tsx:14), newest first
  rendered,    \* the `orders` value closed over by the handlers of the last render
  isLoaded,    \* React state `isLoaded` (App.tsx:15)
  storage,     \* localStorage[STORAGE_KEY]
  uuidCount,   \* how many identifiers crypto.randomUUID() has returned so far
  assigned,    \* history: id -> number of records that were created with it
  lastOp,      \* history: the last handler that ran, with its arguments
  prevOrders,  \* history: `orders` before the last handler ran
  searchClient,       \* React state `searchClient` (App.tsx:18)
  searchOrderNumber,  \* React state `searchOrderNumber` (App.tsx:19)
  searchStatus,       \* React state `searchStatus` (App.tsx:20)
  tripBase,    \* history: position, id and order number that the target of the
               \* last two handlers had before them, when both were
               \* handleStatusChange on the same id of the ledger; {} otherwise
  pending      \* a state update was queued and its render has not run yet

vars == <<orders, rendered, isLoaded, storage, uuidCount, assigned, lastOp,
          prevOrders, searchClient, searchOrderNumber, searchStatus, tripBase,
          pending>>

search == <<searchClient, searchOrderNumber, searchStatus>>

\* ------------------------------------------------------------ text values
DigitChars == <<"0", "1", "2", "3", "4", "5", "6", "7", "8", "9">>

\* Number.prototype.toString() of a non-negative integer.
RECURSIVE ToString(_)
ToString(n) ==
  IF n < 10 THEN <<DigitChars[n + 1]>>
  ELSE ToString(n \div 10) \o <<DigitChars[(n % 10) + 1]>>

DigitOf ==
  [c \in {DigitChars[i] : i \in 1 .. 10} |->
     CHOOSE d \in 0 .. 9 : DigitChars[d + 1] = c]

DigitValue(c) == DigitOf[c]

IsDigit(c) == c \in DOMAIN DigitOf

\* parseInt(s, 10) of a text that starts with a digit: the value of its
\* longest prefix of digits.  A text without such a prefix gives NaN.
NaN == "NaN"

RECURSIVE ParseDigits(_, _)
ParseDigits(s, acc) ==
  IF s = <<>> \/ ~IsDigit(Head(s)) THEN acc
  ELSE ParseDigits(Tail(s), acc * 10 + DigitValue(Head(s)))

ParseInt(s) ==
  IF s = <<>> \/ ~IsDigit(Head(s)) THEN NaN ELSE ParseDigits(s, 0)

\* String.prototype.toLowerCase() over the letters the model's texts use.
LowerChar(c) ==
  CASE c = "A" -> "a"
    [] c = "B" -> "b"
    [] c = "C" -> "c"
    [] c = "J" -> "j"
    [] c = "T" -> "t"
    [] OTHER   -> c

ToLowerCase(s) == [i \in 1 .. Len(s) |-> LowerChar(s[i])]

\* String.prototype.includes(sub)
Includes(s, sub) ==
  sub = <<>> \/ \E i \in 1 .. (Len(s) - Len(sub) + 1) : SubSeq(s, i, i + Len(sub) - 1) = sub

\* JavaScript truthiness of a string: !s is true exactly for the empty string.
\* Text values are character sequences; a status is kept as one atom.
Falsy(s) == s = <<>>

FalsyStatus(s) == s = ""

\* ------------------------------------------------------------ the records
OrderStatus == {"Pendente", "Em Curso", "Concluído", "Anulado"}

Ids == 1 .. MaxIds

\* Object spread {...o, ...upd}: the fields of upd win.
Spread(o, upd) ==
  [f \in (DOMAIN o) \cup (DOMAIN upd) |->
     IF f \in DOMAIN upd THEN upd[f] ELSE o[f]]

Has(o, f) == f \in DOMAIN o

\* Form contents a user can submit (OrderForm state `formData`).
FormData(item, quantity, client, commercial, section, organic) ==
  [date |-> "2024-05-17", item |-> item, quantity |-> quantity,
   client |-> client, commercial |-> commercial, section |-> section,
   isOrganicRecycled |-> organic]

FormNoQty     == FormData(<<"f","i","o">>, <<>>, <<"B">>, <<>>, <<"T">>, TRUE)
FormBlankItem == FormData(<<" ">>, <<"2">>, <<"C">>, <<>>, <<"J">>, FALSE)
FormNoItem    == FormData(<<>>, <<"1">>, <<"A">>, <<>>, <<"J">>, FALSE)
FormNoClient  == FormData(<<"f","i","o">>, <<"1">>, <<>>, <<>>, <<"J">>, FALSE)
FormNoSection == FormData(<<"f","i","o">>, <<"1">>, <<"A">>, <<>>, <<>>, FALSE)

FormInputs ==
  {FormNoQty, FormBlankItem, FormNoItem, FormNoClient, FormNoSection}

\* ------------------------------------------------------------ persistence
NoSnapshot == [kind |-> "null"]

\* JSON.stringify(orders) as kept by localStorage.setItem.
Stringify(os) == [kind |-> "json", value |-> os]

\* JSON.parse(saved)
Parse(saved) == saved.value

\* Stored text that is not JSON: JSON.parse throws on it.
Unparsable == [kind |-> "text"]

\* A null entry of a parsed array.
JsonNull == [jsonNull |-> TRUE]

IsNull(o) == Has(o, "jsonNull")

\* The try block of the load effect throws: JSON.parse on text that is not
\* JSON, or the map callback reading o.status of a null entry.
LoadThrows(saved) ==
  \/ saved.kind = "text"
  \/ /\ saved.kind = "json"
     /\ \E i \in 1 .. Len(Parse(saved)) : IsNull(Parse(saved)[i])

\* Variant: every loaded record is reset to "Pendente".
MigrateAlwaysPending(o) ==
  Spread(o,
    [status     |-> "Pendente",
     commercial |-> IF Has(o, "commercial") /\ ~Falsy(o.commercial)
                    THEN o.commercial ELSE <<>>])

\* Variant: only the falsy test, without the presence of the field.
MigrateStatusOnly(o) ==
  Spread(o,
    [status |-> IF Has(o, "status") /\ ~FalsyStatus(o.status)
                THEN o.status ELSE "Pendente"])

\* The load effect's migration of one parsed record.
Migrate(o) ==
  Spread(o,
    [status     |-> IF Has(o, "status") /\ ~FalsyStatus(o.status)
                    THEN o.status ELSE "Pendente",
     commercial |-> IF Has(o, "commercial") /\ ~Falsy(o.commercial)
                    THEN o.commercial ELSE <<>>])

MigratedOrders(parsedOrders) ==
  [i \in 1 .. Len(parsedOrders) |-> Migrate(parsedOrders[i])]

\* ---------------------------------------------------------------- ledger
\* crypto.randomUUID(): identifiers are opaque, so they are named by the
\* order in which they are handed out; none is handed out twice.
RandomUUID(count) == count + 1

\* Variant: the number of orders, without the one being added.
GetNextOrderNumberZeroBased(os) == ToString(Len(os))

GetNextOrderNumber(os) == ToString(Len(os) + 1)

\* Variant: the record's id is derived from the ledger size instead of
\* being a fresh identifier.
NewOrderIdFromLength(id, data, os) ==
  Spread([id |-> Len(os) + 1, orderNumber |-> ToString(Len(os) + 1),
          status |-> "Pendente"], data)

\* The object literal of handleAddOrder: {id, orderNumber, status, ...data}.
NewOrder(id, data, os) ==
  Spread([id |-> id, orderNumber |-> GetNextOrderNumber(os),
          status |-> "Pendente"], data)

\* Variant: the new record is appended at the bottom of the list.
AddUpdaterAppend(newOrder, prev) == prev \o <<newOrder>>

\* setOrders(prev => [newOrder, ...prev])
AddUpdater(newOrder, prev) == <<newOrder>> \o prev

\* Variant: the id test is dropped, every record takes the new status.
StatusUpdaterAll(prev, id, newStatus) ==
  [i \in 1 .. Len(prev) |-> Spread(prev[i], [status |-> newStatus])]

\* Variant: the id test is inverted.
StatusUpdaterOthers(prev, id, newStatus) ==
  [i \in 1 .. Len(prev) |->
     IF prev[i].id # id THEN Spread(prev[i], [status |-> newStatus])
     ELSE prev[i]]

\* Variant: a record that has left "Pendente" keeps its status.
StatusUpdaterOnce(prev, id, newStatus) ==
  [i \in 1 .. Len(prev) |->
     IF prev[i].id = id /\ prev[i].status = "Pendente"
     THEN Spread(prev[i], [status |-> newStatus])
     ELSE prev[i]]

\* Variant: an order that is "Concluído" or "Anulado" keeps its status.
StatusUpdaterFinal(prev, id, newStatus) ==
  [i \in 1 .. Len(prev) |->
     IF prev[i].id = id /\ prev[i].status \notin {"Concluído", "Anulado"}
     THEN Spread(prev[i], [status |-> newStatus]) ELSE prev[i]]

\* prev.map(order => order.id === id ? {...order, status} : order)
StatusUpdater(prev, id, newStatus) ==
  [i \in 1 .. Len(prev) |->
     IF prev[i].id = id THEN Spread(prev[i], [status |-> newStatus])
     ELSE prev[i]]

\* Variant: the filter keeps the record it should drop.
FilterOutKeeps(prev, id) == SelectSeq(prev, LAMBDA o : o.id = id)

\* prev.filter(o => o.id !== id)
RECURSIVE FilterOut(_, _)
FilterOut(prev, id) ==
  IF prev = <<>> THEN <<>>
  ELSE IF Head(prev).id # id THEN <<Head(prev)>> \o FilterOut(Tail(prev), id)
  ELSE FilterOut(Tail(prev), id)

\* Variant: the survivors keep the numbers they had.
RenumberNone(filtered) == filtered

\* filtered.map((order, index) => ({...order, orderNumber: length - index}))
Renumber(filtered) ==
  [i \in 1 .. Len(filtered) |->
     Spread(filtered[i],
            [orderNumber |-> ToString(Len(filtered) - (i - 1))])]

\* Variant: removal by splice(findIndex(id), 1); findIndex gives -1 for an
\* id that is not there, and splice(-1, 1) drops the last element.
DeleteUpdaterSplice(prev, id) ==
  IF prev = <<>> THEN prev
  ELSE IF \E i \in 1 .. Len(prev) : prev[i].id = id
       THEN Renumber(FilterOut(prev, id))
       ELSE Renumber(SubSeq(prev, 1, Len(prev) - 1))

DeleteUpdater(prev, id) == Renumber(FilterOut(prev, id))

Present(os, id) == \E i \in 1 .. Len(os) : os[i].id = id

\* ------------------------------------------------------------ the actions
\* ------------------------------------------------------ filteredOrders
\* Variant: a record passes when any one of the three tests passes.
OrderMatchesAny(order, sc, sn, ss) ==
  \/ Includes(ToLowerCase(order.client), ToLowerCase(sc))
  \/ Falsy(sn)
  \/ (Has(order, "orderNumber") /\ ~Falsy(order.orderNumber)
        /\ Includes(order.orderNumber, sn))
  \/ FalsyStatus(ss)
  \/ order.status = ss

\* The filter callback (App.tsx:95-107).
OrderMatches(order, sc, sn, ss) ==
  LET clientMatch == Includes(ToLowerCase(order.client), ToLowerCase(sc))
      numberMatch == \/ Falsy(sn)
                     \/ /\ Has(order, "orderNumber")
                        /\ ~Falsy(order.orderNumber)
                        /\ Includes(order.orderNumber, sn)
      statusMatch == FalsyStatus(ss) \/ order.status = ss
  IN clientMatch /\ numberMatch /\ statusMatch

\* a.orderNumber || '0'
OrderNumberOrZero(o) ==
  IF Has(o, "orderNumber") /\ ~Falsy(o.orderNumber) THEN o.orderNumber
  ELSE <<"0">>

\* Variant: numA - numB.
CompareAscending(a, b) ==
  ParseInt(OrderNumberOrZero(a)) - ParseInt(OrderNumberOrZero(b))

\* The sort comparator (App.tsx:108-113): numB - numA.
Compare(a, b) ==
  ParseInt(OrderNumberOrZero(b)) - ParseInt(OrderNumberOrZero(a))

\* Array.prototype.sort with the comparator: a stable sort.  x stood before
\* every element of `sorted`; it goes after the elements that compare
\* before it, and before the first one that does not.
RECURSIVE InsertSorted(_, _)
InsertSorted(x, sorted) ==
  IF sorted = <<>> THEN <<x>>
  ELSE IF Compare(x, Head(sorted)) > 0
       THEN <<Head(sorted)>> \o InsertSorted(x, Tail(sorted))
       ELSE <<x>> \o sorted

RECURSIVE SortDesc(_)
SortDesc(arr) ==
  IF arr = <<>> THEN <<>> ELSE InsertSorted(Head(arr), SortDesc(Tail(arr)))

\* The arrays of one render: `ledger` is the array held by the state
\* `orders`; Array.prototype.filter makes a new array, and
\* Array.prototype.sort sorts the array it is called on, in place.
ArrayFilter(heap, sc, sn, ss) ==
  LET Test(o) == OrderMatches(o, sc, sn, ss)
  IN [ledger |-> heap.ledger, filtered |-> SelectSeq(heap.ledger, Test)]

\* Variant: the sort is called on the state array as well.
ArraySortShared(heap) ==
  [ledger |-> SortDesc(heap.ledger), filtered |-> SortDesc(heap.filtered)]

ArraySort(heap) == [heap EXCEPT !.filtered = SortDesc(@)]

\* The useMemo callback (App.tsx:94-114) run on the state array `os`.
QueryRun(os, sc, sn, ss) ==
  ArraySort(ArrayFilter([ledger |-> os], sc, sn, ss))

FilteredOrders(os, sc, sn, ss) == QueryRun(os, sc, sn, ss).filtered

\* A state update of a handler, the re-render it causes and the save effect
\* of that render (App.tsx:43-47) happen before the next event is handled.
\* The render reads the state array and leaves it as the updater returned it.
Commit(newOrders) ==
  /\ orders' = newOrders
  /\ rendered' = newOrders
  /\ storage' = IF isLoaded THEN Stringify(newOrders) ELSE storage
  /\ UNCHANGED search

\* The status round trip history: set when this handleStatusChange follows
\* another one on the same id, which is in the ledger.  It keeps what the
\* records with that id were before the first of the two calls: position,
\* id and order number.
Identity(os, id) ==
  {[pos |-> i, id |-> os[i].id, orderNumber |-> os[i].orderNumber] :
     i \in {j \in 1 .. Len(os) : os[j].id = id}}

TripBaseAfter(op) ==
  IF /\ op.op = "setStatus"
     /\ lastOp.op = "setStatus"
     /\ lastOp.id = op.id
  THEN Identity(prevOrders, op.id) ELSE {}

Record(op) ==
  /\ lastOp' = op
  /\ prevOrders' = orders
  /\ tripBase' = TripBaseAfter(op)

Init ==
  /\ orders = <<>>
  /\ rendered = <<>>
  /\ isLoaded = FALSE
  /\ storage = NoSnapshot
  /\ uuidCount = 0
  /\ assigned = [i \in Ids |-> 0]
  /\ lastOp = [op |-> "none", raised |-> "none"]
  /\ prevOrders = <<>>
  /\ searchClient = <<>>
  /\ searchOrderNumber = <<>>
  /\ searchStatus = ""
  /\ tripBase = {}
  /\ pending = FALSE

\* Mount: the load effect (App.tsx:23-40), then the render with
\* isLoaded = true and its save effect.  An exception of the try block is
\* caught and logged, and the ledger stays as it was (empty).
Mount ==
  /\ UNCHANGED pending
  /\ ~isLoaded
  /\ LET loaded == IF storage.kind = "null" \/ LoadThrows(storage)
                   THEN orders ELSE MigratedOrders(Parse(storage))
     IN /\ orders' = loaded
        /\ rendered' = loaded
        /\ storage' = Stringify(loaded)
  /\ isLoaded' = TRUE
  /\ UNCHANGED search
  /\ Record([op |-> "mount", saved |-> storage, raised |-> "none"])
  /\ UNCHANGED <<uuidCount, assigned>>

\* The component is gone: its state is lost, the stored snapshot stays.
Unmounted ==
  /\ orders' = <<>>
  /\ rendered' = <<>>
  /\ isLoaded' = FALSE
  /\ searchClient' = <<>>
  /\ searchOrderNumber' = <<>>
  /\ searchStatus' = ""
  /\ UNCHANGED storage

\* The page is closed or reloaded: the component state is gone, the stored
\* snapshot stays.
Unmount ==
  /\ UNCHANGED pending
  /\ isLoaded
  /\ Unmounted
  /\ Record([op |-> "unmount", raised |-> "none"])
  /\ UNCHANGED <<uuidCount, assigned>>

\* OrderForm.handleSubmit with the form holding `data`.
HandleSubmit(data) ==
  /\ UNCHANGED pending
  /\ isLoaded
  /\ IF Falsy(data.item) \/ Falsy(data.client) \/ Falsy(data.section)
     THEN /\ Record([op |-> "rejected", data |-> data, raised |-> "none"])
          /\ UNCHANGED <<orders, rendered, storage, isLoaded, uuidCount,
                         assigned, search>>
     ELSE /\ Len(orders) < MaxOrders
          /\ uuidCount < MaxIds
          /\ LET id       == RandomUUID(uuidCount)
                 newOrder == NewOrder(id, data, rendered)
             IN /\ Commit(AddUpdater(newOrder, orders))
                /\ assigned' = [assigned EXCEPT ![newOrder.id] = @ + 1]
          /\ uuidCount' = uuidCount + 1
          /\ Record([op |-> "add", data |-> data, raised |-> "none"])
          /\ UNCHANGED isLoaded

HandleStatusChange(id, newStatus) ==
  /\ UNCHANGED pending
  /\ isLoaded
  /\ Commit(StatusUpdater(orders, id, newStatus))
  /\ Record([op |-> "setStatus", id |-> id, status |-> newStatus,
             raised |-> "none"])
  /\ UNCHANGED <<isLoaded, uuidCount, assigned>>

\* handleDeleteOrder; `confirmed` is the answer to window.confirm.
HandleDeleteOrder(id, confirmed) ==
  /\ UNCHANGED pending
  /\ isLoaded
  /\ IF confirmed
     THEN Commit(DeleteUpdater(orders, id))
     ELSE UNCHANGED <<orders, rendered, storage, search>>
  /\ Record([op |-> "remove", id |-> id, confirmed |-> confirmed,
             raised |-> "none"])
  /\ UNCHANGED <<isLoaded, uuidCount, assigned>>

Next ==
  \/ Mount
  \/ Unmount
  \/ \E data \in FormInputs : HandleSubmit(data)
  \/ \E id \in Ids, s \in OrderStatus : HandleStatusChange(id, s)
  \/ \E id \in Ids, c \in BOOLEAN : HandleDeleteOrder(id, c)

Spec == Init /\ [][Next]_vars

\* ------------------------------------------------- stored snapshots
\* A snapshot written by the earlier build of the component (App.tsx:426-486):
\* records with invoiceNumber and without status, commercial or
\* isOrganicRecycled.
LegacyRecord(id, number, client) ==
  [id |-> id, orderNumber |-> number, invoiceNumber |-> <<>>,
   date |-> "2023-11-02", item |-> <<"f","i","o">>, quantity |-> <<"7">>,
   client |-> client, section |-> <<"J">>]

SnapLegacy ==
  Stringify(<<LegacyRecord(2, <<"2">>, <<"B">>), LegacyRecord(1, <<"1">>, <<"A">>)>>)

\* A snapshot whose stored order numbers are not 1..N: localStorage is
\* outside the component and its content is read as it is.
SnapGap ==
  Stringify(<<Spread([id |-> 2, orderNumber |-> <<"5">>, status |-> "Em Curso"],
                     FormNoQty),
              Spread([id |-> 1, orderNumber |-> <<"3">>, status |-> "Pendente"],
                     FormBlankItem)>>)

StoredSnapshots == {SnapLegacy, SnapGap}

\* The component is started on a stored snapshot; the identifiers of the
\* stored records are the ones handed out before.
InitLoad ==
  /\ orders = <<>>
  /\ rendered = <<>>
  /\ isLoaded = FALSE
  /\ storage \in StoredSnapshots
  /\ uuidCount = 2
  /\ assigned = [i \in Ids |-> IF i <= 2 THEN 1 ELSE 0]
  /\ lastOp = [op |-> "none", raised |-> "none"]
  /\ prevOrders = <<>>
  /\ searchClient = <<>>
  /\ searchOrderNumber = <<>>
  /\ searchStatus = ""
  /\ tripBase = {}
  /\ pending = FALSE

SpecLoad == InitLoad /\ [][Next]_vars

\* ------------------------------------- stored snapshots, read and rewritten
\* A snapshot with a status that is present and empty, and with a
\* commercial that is present.
SnapEmptyStatus ==
  Stringify(<<Spread(Spread([id |-> 2, orderNumber |-> <<"2">>, status |-> ""],
                            FormNoQty),
                     [commercial |-> <<"R">>]),
              Spread([id |-> 1, orderNumber |-> <<"1">>, status |-> "Concluído"],
                     FormBlankItem)>>)

\* A snapshot whose first entry is null and whose second entry is a record.
SnapNullEntry == Stringify(<<JsonNull, LegacyRecord(1, <<"1">>, <<"A">>)>>)

\* A snapshot with a status text that is none of the four of OrderStatus.
SnapForeignStatus ==
  Stringify(<<Spread([id |-> 2, orderNumber |-> <<"2">>, status |-> "Entregue"],
                     FormNoQty),
              LegacyRecord(1, <<"1">>, <<"A">>)>>)

StoreSnapshots ==
  StoredSnapshots \cup
    {SnapEmptyStatus, SnapNullEntry, Unparsable, SnapForeignStatus}

InitStore ==
  /\ orders = <<>>
  /\ rendered = <<>>
  /\ isLoaded = FALSE
  /\ storage \in StoreSnapshots
  /\ uuidCount = 2
  /\ assigned = [i \in Ids |-> IF i <= 2 THEN 1 ELSE 0]
  /\ lastOp = [op |-> "none", raised |-> "none"]
  /\ prevOrders = <<>>
  /\ searchClient = <<>>
  /\ searchOrderNumber = <<>>
  /\ searchStatus = ""
  /\ tripBase = {}
  /\ pending = FALSE

\* Sessions on a stored snapshot: load, change, close, load again.
NextStore ==
  \/ Mount
  \/ Unmount
  \/ \E id \in Ids, s \in OrderStatus : HandleStatusChange(id, s)
  \/ \E id \in Ids, c \in BOOLEAN : HandleDeleteOrder(id, c)

SpecStore == InitStore /\ [][NextStore]_vars

\* ------------------------------------------------ search and export
\* new Date(order.date).toLocaleDateString('pt-PT') of the model's dates.
LocaleDate(d) ==
  CASE d = "2024-05-17" -> "17/05/2024"
    [] d = "2023-11-02" -> "02/11/2023"

\* One row of the report's table body (App.tsx:139-149).
TableRow(order) ==
  [date       |-> LocaleDate(order.date),
   number     |-> IF Has(order, "orderNumber") THEN order.orderNumber ELSE <<>>,
   organic    |-> IF Has(order, "isOrganicRecycled") /\ order.isOrganicRecycled
                  THEN "Sim" ELSE "",
   item       |-> order.item,
   quantity   |-> IF Has(order, "quantity") THEN order.quantity ELSE <<>>,
   client     |-> order.client,
   commercial |-> IF Has(order, "commercial") THEN order.commercial ELSE <<>>,
   section    |-> order.section,
   status     |-> IF Has(order, "status") /\ ~FalsyStatus(order.status)
                  THEN order.status ELSE "Pendente"]

\* Variant: the rows are made from the state array.
ArrayMapLedger(heap) ==
  [ledger   |-> heap.ledger,
   filtered |-> heap.filtered,
   body     |-> [i \in 1 .. Len(heap.ledger) |-> TableRow(heap.ledger[i])]]

\* filteredOrders.map(...): a new array next to the ones of the render.
ArrayMap(heap) ==
  [ledger   |-> heap.ledger,
   filtered |-> heap.filtered,
   body     |-> [i \in 1 .. Len(heap.filtered) |-> TableRow(heap.filtered[i])]]

\* The render after a change of a search field: filteredOrders is computed
\* again on the state array; `orders` is the same array, so the save effect
\* does not run.
SetSearch(sc, sn, ss) ==
  /\ UNCHANGED pending
  /\ isLoaded
  /\ searchClient' = sc
  /\ searchOrderNumber' = sn
  /\ searchStatus' = ss
  /\ orders' = QueryRun(orders, sc, sn, ss).ledger
  /\ rendered' = orders'
  /\ Record([op |-> "search", raised |-> "none"])
  /\ UNCHANGED <<isLoaded, storage, uuidCount, assigned>>

SetSearchClient(text) == SetSearch(text, searchOrderNumber, searchStatus)

SetSearchOrderNumber(text) == SetSearch(searchClient, text, searchStatus)

SetSearchStatus(status) == SetSearch(searchClient, searchOrderNumber, status)

\* Readings of the clock (new Date()) when a report is made.
Clock ==
  {[date |-> "2024-05-17", time |-> "09:30"],
   [date |-> "2024-05-17", time |-> "09:31"],
   [date |-> "2024-05-18", time |-> "09:30"]}

\* Variant: a report made right after another report is marked as a copy.
ReportTitleCopy ==
  IF lastOp.op = "exportPDF" THEN "Relatório de Encomendas Internas (cópia)"
  ELSE "Relatório de Encomendas Internas"

ReportTitle == "Relatório de Encomendas Internas"

ReportHead ==
  <<"Data", "Nº Enc.", "Org.", "Artigo / Serviço", "Qtd.", "Cliente",
    "Comercial", "Secção", "Estado">>

\* The report (App.tsx:117-166): title, `Gerado em: ${dateStr}`, the table
\* and the file name `encomendas_${new Date().toISOString().slice(0,10)}.pdf`.
Report(body, now) ==
  [title     |-> ReportTitle,
   generated |-> [label |-> "Gerado em: ", date |-> now.date, time |-> now.time],
   head      |-> ReportHead,
   body      |-> body,
   fileName  |-> [prefix |-> "encomendas_", date |-> now.date, suffix |-> ".pdf"]]

\* handleExportPDF: the table body is built from filteredOrders.
HandleExportPDF(now) ==
  /\ UNCHANGED pending
  /\ isLoaded
  /\ LET heap == ArrayMap(QueryRun(orders, searchClient, searchOrderNumber,
                                   searchStatus))
     IN /\ orders' = heap.ledger
        /\ rendered' = heap.ledger
        /\ Record([op |-> "exportPDF", at |-> now, doc |-> Report(heap.body, now),
                   raised |-> "none"])
  /\ UNCHANGED <<isLoaded, storage, uuidCount, assigned, search>>

\* `x || '-'` of an optional text field.
OrDash(order, f) ==
  IF Has(order, f) /\ ~Falsy(order[f]) THEN order[f] ELSE <<"-">>

\* The form-like grid of the single-order document (App.tsx:169-317).
OrderGrid(order) ==
  LET isOrganic == Has(order, "isOrganicRecycled") /\ order.isOrganicRecycled
  IN [title      |-> IF isOrganic THEN "ENCOMENDA (ORGÂNICO/RECICLADO)"
                     ELSE "ENCOMENDA INTERNA",
      date       |-> LocaleDate(order.date),
      number     |-> OrDash(order, "orderNumber"),
      client     |-> order.client,
      commercial |-> OrDash(order, "commercial"),
      section    |-> order.section,
      quantity   |-> OrDash(order, "quantity"),
      item       |-> order.item,
      status     |-> IF Has(order, "status") /\ ~FalsyStatus(order.status)
                     THEN order.status ELSE "Pendente",
      type       |-> IF isOrganic THEN "ORGÂNICO / RECICLADO" ELSE "PADRÃO",
      emptyRows  |-> 10]

\* `encomenda_${order.orderNumber || 'sem_numero'}.pdf`
ExportFileName(order) ==
  IF Has(order, "orderNumber") /\ ~Falsy(order.orderNumber)
  THEN [prefix |-> "encomenda_", number |-> order.orderNumber, suffix |-> ".pdf"]
  ELSE [prefix |-> "encomenda_", number |-> "sem_numero", suffix |-> ".pdf"]

\* handleExportOrder, from the export button of row i of the list.
HandleExportOrder(i) ==
  /\ UNCHANGED pending
  /\ isLoaded
  /\ LET heap == QueryRun(orders, searchClient, searchOrderNumber, searchStatus)
     IN /\ i \in 1 .. Len(heap.filtered)
        /\ orders' = heap.ledger
        /\ rendered' = heap.ledger
        /\ Record([op |-> "exportOrder", id |-> heap.filtered[i].id,
                   page |-> OrderGrid(heap.filtered[i]),
                   fileName |-> ExportFileName(heap.filtered[i]),
                   raised |-> "none"])
  /\ UNCHANGED <<isLoaded, storage, uuidCount, assigned, search>>

\* The texts typed into the two search inputs, and the options of the
\* status select (App.tsx:339-392).
ClientQueries == {<<>>, <<"b">>, <<"A", "B">>}

NumberQueries == {<<>>, <<"1">>, <<"0">>}

StatusQueries == {""} \cup OrderStatus

\* A snapshot the component wrote itself: ten orders, newest first.
TenClients == <<<<"A", "b">>, <<"B">>, <<"a">>>>

TenStatuses == <<"Em Curso", "Concluído", "Anulado", "Pendente">>

TenRecord(n) ==
  Spread([id |-> n, orderNumber |-> ToString(n),
          status |-> TenStatuses[((n - 1) % 4) + 1]],
         FormData(<<"f", "i", "o">>, <<"2">>, TenClients[((n - 1) % 3) + 1],
                  <<>>, <<"T">>, n % 2 = 0))

SnapTen == Stringify([i \in 1 .. 10 |-> TenRecord(11 - i)])

QuerySnapshots == {SnapTen, SnapGap}

InitQuery ==
  /\ orders = <<>>
  /\ rendered = <<>>
  /\ isLoaded = FALSE
  /\ storage \in QuerySnapshots
  /\ uuidCount = Len(Parse(storage))
  /\ assigned = [i \in Ids |-> IF i <= uuidCount THEN 1 ELSE 0]
  /\ lastOp = [op |-> "none", raised |-> "none"]
  /\ prevOrders = <<>>
  /\ searchClient = <<>>
  /\ searchOrderNumber = <<>>
  /\ searchStatus = ""
  /\ tripBase = {}
  /\ pending = FALSE

NextQuery ==
  \/ Mount
  \/ Unmount
  \/ \E data \in FormInputs : HandleSubmit(data)
  \/ \E text \in ClientQueries : SetSearchClient(text)
  \/ \E text \in NumberQueries : SetSearchOrderNumber(text)
  \/ \E status \in StatusQueries : SetSearchStatus(status)
  \/ \E now \in Clock : HandleExportPDF(now)
  \/ \E i \in 1 .. MaxOrders : HandleExportOrder(i)

SpecQuery == InitQuery /\ [][NextQuery]_vars

\* ------------------------------------------------------------ documents
\* A stored record with an empty description, empty optional fields and no
\* order number, next to a complete one.
SnapBare ==
  Stringify(<<[id |-> 2, date |-> "2023-11-02", item |-> <<>>,
               quantity |-> <<>>, client |-> <<"A">>, section |-> <<"J">>],
              Spread([id |-> 1, orderNumber |-> <<"1">>, status |-> "Concluído"],
                     FormNoQty)>>)

ReportSnapshots == {SnapBare, SnapLegacy, SnapGap}

InitReport ==
  /\ orders = <<>>
  /\ rendered = <<>>
  /\ isLoaded = FALSE
  /\ storage \in ReportSnapshots
  /\ uuidCount = 2
  /\ assigned = [i \in Ids |-> IF i <= 2 THEN 1 ELSE 0]
  /\ lastOp = [op |-> "none", raised |-> "none"]
  /\ prevOrders = <<>>
  /\ searchClient = <<>>
  /\ searchOrderNumber = <<>>
  /\ searchStatus = ""
  /\ tripBase = {}
  /\ pending = FALSE

\* Sessions that make documents: of the whole view and of one order of it.
NextReport ==
  \/ Mount
  \/ \E text \in ClientQueries : SetSearchClient(text)
  \/ \E status \in StatusQueries : SetSearchStatus(status)
  \/ \E now \in Clock : HandleExportPDF(now)
  \/ \E i \in 1 .. MaxOrders : HandleExportOrder(i)

SpecReport == InitReport /\ [][NextReport]_vars

\* ------------------------------------------------------------ properties
\* String.prototype.trim(), for "empty after trimming" in the record
\* contract; no handler calls it.
IsWhitespace(c) == c = " "

RECURSIVE TrimStart(_)
TrimStart(s) ==
  IF s # <<>> /\ IsWhitespace(Head(s)) THEN TrimStart(Tail(s)) ELSE s

RECURSIVE TrimEnd(_)
TrimEnd(s) ==
  IF s # <<>> /\ IsWhitespace(s[Len(s)])
  THEN TrimEnd(SubSeq(s, 1, Len(s) - 1)) ELSE s

Trim(s) == TrimEnd(TrimStart(s))

\* The record at newest-first position i (0-based) holds N - i.
DenseNumbering(os) ==
  \A i \in 1 .. Len(os) : os[i].orderNumber = ToString(Len(os) - (i - 1))

SameExcept(r1, r2, f) ==
  /\ DOMAIN r1 = DOMAIN r2
  /\ \A g \in (DOMAIN r1) \ {f} : r1[g] = r2[g]

RemovedAbsent ==
  /\ lastOp.op = "remove"
  /\ lastOp.confirmed
  /\ ~Present(prevOrders, lastOp.id)

RemovedPresent ==
  /\ lastOp.op = "remove"
  /\ lastOp.confirmed
  /\ Present(prevOrders, lastOp.id)

BlankRequired(data) ==
  \/ Trim(data.item) = <<>>
  \/ Trim(data.client) = <<>>
  \/ Trim(data.section) = <<>>

\* C1: from the empty ledger, after every add, remove or setStatus the
\* order numbers are exactly 1..N without duplicates, and the record at
\* newest-first position i holds N - i.
C1_DenseNumbering ==
  /\ DenseNumbering(orders)
  /\ \A i, j \in 1 .. Len(orders) :
        i # j => orders[i].orderNumber # orders[j].orderNumber

C1_Witness ==
  /\ RemovedPresent
  /\ Len(prevOrders) = 3
  /\ prevOrders[3].id = lastOp.id
  /\ Len(orders) = 2

\* C2 (as stated): right after loading any stored snapshot, and after any
\* add that follows, the record at position i holds N - i.
C2_LoadedNumberingDense == isLoaded => DenseNumbering(orders)

\* C3: add on a ledger of size N gives size N + 1; the head is the new
\* record with number N + 1, status Pendente and the submitted values; the
\* N previous records follow unchanged.
C3_AddPrepends ==
  lastOp.op = "add" =>
    /\ Len(orders) = Len(prevOrders) + 1
    /\ orders[1].orderNumber = ToString(Len(prevOrders) + 1)
    /\ orders[1].status = "Pendente"
    /\ \A f \in DOMAIN lastOp.data : orders[1][f] = lastOp.data[f]
    /\ ~Present(prevOrders, orders[1].id)
    /\ SubSeq(orders, 2, Len(orders)) = prevOrders

C3_Witness ==
  /\ lastOp.op = "add"
  /\ Len(orders) = 3
  /\ orders[2].status # "Pendente"

\* C4: a successful remove deletes exactly the one record with that id; the
\* survivors keep their order and every field but the order number, which
\* becomes totalRemaining - i at position i.
C4_RemoveFrame ==
  RemovedPresent =>
    /\ Len(orders) = Len(prevOrders) - 1
    /\ \E k \in 1 .. Len(prevOrders) :
         /\ prevOrders[k].id = lastOp.id
         /\ \A i \in 1 .. Len(orders) :
              LET before == IF i < k THEN prevOrders[i] ELSE prevOrders[i + 1]
              IN /\ SameExcept(orders[i], before, "orderNumber")
                 /\ orders[i].orderNumber = ToString(Len(orders) - (i - 1))

C4_Witness ==
  /\ RemovedPresent
  /\ Len(prevOrders) = 3
  /\ prevOrders[2].id = lastOp.id
  /\ orders[1].orderNumber # prevOrders[1].orderNumber

\* C5 (as stated): remove of an id that is not in the ledger fails with
\* NotFoundError and leaves the ledger unchanged, also after a load.
C5_AbsentRemoveFails ==
  RemovedAbsent => (lastOp.raised = "NotFoundError" /\ orders = prevOrders)

\* C5 (amended): remove of an id that is not in the ledger raises nothing;
\* it keeps the records, their order and every field but the order number,
\* and rewrites the order number at position i to N - i, so the ledger is
\* unchanged exactly when its numbering was already 1..N.
C5_AbsentRemoveRenumbers ==
  RemovedAbsent =>
    /\ lastOp.raised = "none"
    /\ Len(orders) = Len(prevOrders)
    /\ \A i \in 1 .. Len(orders) :
         /\ SameExcept(orders[i], prevOrders[i], "orderNumber")
         /\ orders[i].orderNumber = ToString(Len(orders) - (i - 1))
    /\ (orders = prevOrders) <=> DenseNumbering(prevOrders)

C5_Witness ==
  /\ RemovedAbsent
  /\ Len(orders) = 2
  /\ orders # prevOrders

\* C6: setStatus on a present id changes only the status of that one
\* record; its position, number, id and other fields, every other record
\* and the ledger size are unchanged.
C6_SetStatusFrame ==
  (lastOp.op = "setStatus" /\ Present(prevOrders, lastOp.id)) =>
    /\ Len(orders) = Len(prevOrders)
    /\ Cardinality({i \in 1 .. Len(prevOrders) : prevOrders[i].id = lastOp.id}) = 1
    /\ \A i \in 1 .. Len(orders) :
         IF prevOrders[i].id = lastOp.id
         THEN /\ SameExcept(orders[i], prevOrders[i], "status")
              /\ orders[i].status = lastOp.status
         ELSE orders[i] = prevOrders[i]

C6_Witness ==
  /\ lastOp.op = "setStatus"
  /\ Len(orders) = 3
  /\ prevOrders[2].id = lastOp.id
  /\ orders[2].status # prevOrders[2].status
  /\ orders[1].status # lastOp.status

\* C7 (as stated): setStatus of an id that is not in the ledger fails with
\* NotFoundError and changes no record.
C7_AbsentSetStatusFails ==
  (lastOp.op = "setStatus" /\ ~Present(prevOrders, lastOp.id)) =>
    (lastOp.raised = "NotFoundError" /\ orders = prevOrders)

\* C7 (amended): setStatus of an id that is not in the ledger raises
\* nothing and changes no record.
C7_AbsentSetStatusSilent ==
  (lastOp.op = "setStatus" /\ ~Present(prevOrders, lastOp.id)) =>
    (lastOp.raised = "none" /\ orders = prevOrders)

C7_Witness ==
  /\ lastOp.op = "setStatus"
  /\ ~Present(prevOrders, lastOp.id)
  /\ Len(orders) = 2
  /\ \E i \in 1 .. 2 : orders[i].status # lastOp.status

\* C8: setStatus(id, X) followed by setStatus(id, Y) leaves the record with
\* status Y and with the order number and id it had before the two calls.
C8_StatusRoundTrip ==
  (lastOp.op = "setStatus" /\ tripBase # {}) =>
    \A b \in tripBase :
      /\ b.pos <= Len(orders)
      /\ orders[b.pos].status = lastOp.status
      /\ orders[b.pos].id = b.id
      /\ orders[b.pos].orderNumber = b.orderNumber

C8_Witness ==
  /\ lastOp.op = "setStatus"
  /\ Len(orders) = 3
  /\ \E b \in tripBase :
       /\ b.pos = 2
       /\ prevOrders[2].status \notin {"Pendente", lastOp.status}
       /\ orders[2].status = lastOp.status

\* C9: no two live records share an id, and no id is given to a record
\* twice in the ledger's lifetime, removed records included.
C9_IdsNeverReused ==
  /\ \A i, j \in 1 .. Len(orders) : i # j => orders[i].id # orders[j].id
  /\ \A id \in Ids : assigned[id] <= 1

C9_Witness ==
  /\ lastOp.op = "add"
  /\ Len(orders) = 2
  /\ uuidCount = 3
  /\ assigned[1] = 1
  /\ ~Present(orders, 1)

\* C10 (as stated): a submission whose description, client or section is
\* empty after trimming is refused and leaves the ledger unchanged, and no
\* live record has such a field.
C10_BlankRefused ==
  /\ (lastOp.op \in {"add", "rejected"} /\ BlankRequired(lastOp.data)) =>
       (lastOp.op = "rejected" /\ orders = prevOrders)
  /\ \A i \in 1 .. Len(orders) :
       /\ Trim(orders[i].item) # <<>>
       /\ Trim(orders[i].client) # <<>>
       /\ Trim(orders[i].section) # <<>>

\* ------------------------------------------- single-order documents
\* Vertical positions are kept in hundredths of a millimetre, so that
\* lineHeight * 1.5 and the line advance of a text block are integers.
Scale == 100

Mm(v) == v * Scale

\* The running-cursor handleExportOrder (part_002:126-237; part_003:110-211
\* is the same code without the organic branch).
CursorBannerHeight == 35
CursorStartY == 50
CursorFontSize == 11
LineHeight == 7
TextLineHeight == 6
SeparatorRise == 5
SeparatorGap == 5
BoxStart == 40
BoxPadding == 10

\* The fixed-box handleExportOrder (App.tsx:530-602).
FixedBannerHeight == 40
FixedFontSize == 12
FixedStartY == 50
FixedLineHeight == 10
FixedBoxRise == 5
FixedBoxHeight == 110

\* How many characters of the model's item texts fit the content width of
\* 170 (doc.splitTextToSize(order.item, contentWidth)).
CharsPerLine == 2

\* Longest item text of the stored orders that are exported.
MaxItemLen == 24

\* doc.splitTextToSize(text, width): the lines of the wrapped text; a text
\* that fits, the empty text included, is one line.
RECURSIVE SplitTextToSize(_, _)
SplitTextToSize(text, perLine) ==
  IF Len(text) <= perLine THEN <<text>>
  ELSE <<SubSeq(text, 1, perLine)>>
         \o SplitTextToSize(SubSeq(text, perLine + 1, Len(text)), perLine)

\* doc.text(lines, x, y): line i is drawn at y plus (i - 1) line advances;
\* the advance is the font size (points) times the line height factor 1.15.
TextPitch(fontSize) == (fontSize * 115 * 254) \div 720

TextLines(lines, y, fontSize) ==
  [i \in 1 .. Len(lines) |-> y + (i - 1) * TextPitch(fontSize)]

\* Variant: the last line is not counted.
TextHeightShort(splitItem) == (Len(splitItem) - 1) * Mm(TextLineHeight)

\* Variant: the text height is one line's, whatever the number of lines.
TextHeightFlat(splitItem) == Mm(TextLineHeight)

\* const textHeight = splitItem.length * 6
TextHeight(splitItem) == Len(splitItem) * Mm(TextLineHeight)

\* lineHeight * 1.5
LineAndHalf == (3 * Mm(LineHeight)) \div 2

\* The page of the running-cursor handleExportOrder: the offsets of what is
\* drawn inside the frame, in drawing order, and the frame.
LayoutCursor(order) ==
  LET isOrganic == Has(order, "isOrganicRecycled") /\ order.isOrganicRecycled
      y1        == Mm(CursorStartY)
      y2        == y1 + Mm(LineHeight) * 2
      y3        == y2 + Mm(LineHeight)
      splitItem == SplitTextToSize(order.item, CharsPerLine)
      y4        == y3 + TextHeight(splitItem) + Mm(LineHeight)
      y5        == y4 + Mm(SeparatorGap)
      y6        == y5 + LineAndHalf
      y7        == IF isOrganic THEN y6 + LineAndHalf ELSE y6
  IN [variant      |-> "cursor",
      bannerBottom |-> Mm(CursorBannerHeight),
      infoY        |-> y1,
      labelY       |-> y2,
      itemY        |-> y3,
      lines        |-> Len(splitItem),
      itemLinesY   |-> TextLines(splitItem, y3, CursorFontSize),
      separatorY   |-> y4 - Mm(SeparatorRise),
      clientY      |-> y5,
      quantityY    |-> y6,
      organicY     |-> IF isOrganic THEN <<y7>> ELSE <<>>,
      cursor       |-> y7,
      frameTop     |-> Mm(BoxStart),
      frameHeight  |-> (y7 + Mm(BoxPadding)) - Mm(BoxStart),
      fileName     |-> ExportFileName(order)]

\* y + lineHeight * k for the half-line steps of the fixed-box document.
FixedRow(halves) == Mm(FixedStartY) + (halves * Mm(FixedLineHeight)) \div 2

\* The page of the fixed-box handleExportOrder.
LayoutFixed(order) ==
  LET splitItem == SplitTextToSize(order.item, CharsPerLine)
      itemYs    == TextLines(splitItem, FixedRow(17), FixedFontSize)
  IN [variant      |-> "fixed",
      bannerBottom |-> Mm(FixedBannerHeight),
      infoY        |-> FixedRow(0),
      labelY       |-> FixedRow(15),
      itemY        |-> FixedRow(17),
      lines        |-> Len(splitItem),
      itemLinesY   |-> itemYs,
      separatorY   |-> FixedRow(13),
      clientY      |-> FixedRow(7),
      quantityY    |-> FixedRow(11),
      organicY     |-> <<>>,
      cursor       |-> itemYs[Len(itemYs)],
      frameTop     |-> Mm(FixedStartY) - Mm(FixedBoxRise),
      frameHeight  |-> Mm(FixedBoxHeight),
      fileName     |-> ExportFileName(order)]

\* The export button of row i in the builds with these two documents.
ExportOrderWith(i, op, page) ==
  /\ UNCHANGED pending
  /\ isLoaded
  /\ LET heap == QueryRun(orders, searchClient, searchOrderNumber, searchStatus)
     IN /\ i \in 1 .. Len(heap.filtered)
        /\ orders' = heap.ledger
        /\ rendered' = heap.ledger
        /\ Record([op |-> op, id |-> heap.filtered[i].id,
                   page |-> IF page = "cursor"
                            THEN LayoutCursor(heap.filtered[i])
                            ELSE LayoutFixed(heap.filtered[i]),
                   raised |-> "none"])
  /\ UNCHANGED <<isLoaded, storage, uuidCount, assigned, search>>

HandleExportOrderCursor(i) == ExportOrderWith(i, "exportOrderCursor", "cursor")

HandleExportOrderFixed(i) == ExportOrderWith(i, "exportOrderFixed", "fixed")

\* Stored orders with item texts of every length up to MaxItemLen.
ItemText(k) == [i \in 1 .. k |-> "x"]

LayoutOrder(k, organic) ==
  Spread([id |-> 1, orderNumber |-> <<"1">>, status |-> "Pendente"],
         FormData(ItemText(k), <<"2">>, <<"A">>, <<>>, <<"T">>, organic))

LayoutSnapshots ==
  {Stringify(<<LayoutOrder(k, organic)>>) : k \in 0 .. MaxItemLen, organic \in BOOLEAN}

InitLayout ==
  /\ orders = <<>>
  /\ rendered = <<>>
  /\ isLoaded = FALSE
  /\ storage \in LayoutSnapshots
  /\ uuidCount = 1
  /\ assigned = [i \in Ids |-> IF i <= 1 THEN 1 ELSE 0]
  /\ lastOp = [op |-> "none", raised |-> "none"]
  /\ prevOrders = <<>>
  /\ searchClient = <<>>
  /\ searchOrderNumber = <<>>
  /\ searchStatus = ""
  /\ tripBase = {}
  /\ pending = FALSE

NextLayout ==
  \/ Mount
  \/ \E i \in 1 .. MaxOrders : HandleExportOrderCursor(i)
  \/ \E i \in 1 .. MaxOrders : HandleExportOrderFixed(i)

SpecLayout == InitLayout /\ [][NextLayout]_vars

\* ------------------------------------------------ three clients
FormOf(client) ==
  FormData(<<"f", "i", "o">>, <<"1">>, client, <<>>, <<"T">>, FALSE)

ScenarioForms == {FormOf(<<"A">>), FormOf(<<"B">>), FormOf(<<"C">>)}

NextScenario ==
  \/ Mount
  \/ \E data \in ScenarioForms : HandleSubmit(data)
  \/ \E id \in Ids : HandleDeleteOrder(id, TRUE)
  \/ \E text \in {<<>>, <<"1">>} : SetSearchOrderNumber(text)

SpecScenario == Init /\ [][NextScenario]_vars

\* ------------------------------------------------ ledgers made from empty
\* Sessions that start with no stored snapshot: orders are added, their
\* status is set and they are removed.
NextView ==
  \/ Mount
  \/ \E data \in {FormOf(<<"A">>), FormOf(<<"B">>)} : HandleSubmit(data)
  \/ \E id \in Ids : HandleStatusChange(id, "Concluído")
  \/ \E id \in Ids : HandleDeleteOrder(id, TRUE)

SpecView == Init /\ [][NextView]_vars

\* ------------------------------------------------ a save that throws
\* localStorage.setItem throws (quota, storage disabled) in the save effect
\* (App.tsx:43-47), which has no try/catch: the handler has returned, the
\* state update was applied and rendered, and the error of the effect is
\* uncaught, so React removes the component tree.  `updated` is the ledger
\* the updater produced.
SaveThrows(op, updated) ==
  /\ UNCHANGED pending
  /\ Unmounted
  /\ Record([op |-> op, updated |-> updated, saveFailed |-> TRUE,
             raised |-> "none"])

HandleSubmitSaveThrows(data) ==
  /\ isLoaded
  /\ ~(Falsy(data.item) \/ Falsy(data.client) \/ Falsy(data.section))
  /\ Len(orders) < MaxOrders
  /\ uuidCount < MaxIds
  /\ LET id       == RandomUUID(uuidCount)
         newOrder == NewOrder(id, data, rendered)
     IN /\ SaveThrows("add", AddUpdater(newOrder, orders))
        /\ assigned' = [assigned EXCEPT ![newOrder.id] = @ + 1]
  /\ uuidCount' = uuidCount + 1

HandleStatusChangeSaveThrows(id, newStatus) ==
  /\ isLoaded
  /\ SaveThrows("setStatus", StatusUpdater(orders, id, newStatus))
  /\ UNCHANGED <<uuidCount, assigned>>

HandleDeleteOrderSaveThrows(id) ==
  /\ isLoaded
  /\ SaveThrows("remove", DeleteUpdater(orders, id))
  /\ UNCHANGED <<uuidCount, assigned>>

NextQuota ==
  \/ Mount
  \/ \E data \in FormInputs : HandleSubmit(data)
  \/ \E data \in FormInputs : HandleSubmitSaveThrows(data)
  \/ \E id \in Ids, s \in OrderStatus : HandleStatusChangeSaveThrows(id, s)
  \/ \E id \in Ids : HandleDeleteOrderSaveThrows(id)

SpecQuota == Init /\ [][NextQuota]_vars

\* ------------------------------------------------ handlers and renders
\* The handlers, the effects and the renders as separate steps: a handler
\* reads the `orders` of the last render and queues its state update, and
\* the render that follows runs the save effect.

\* Variant: the save effect without the isLoaded test.
SaveEffectUnguarded(loadedFlag, os, old) == Stringify(os)

\* Variant: the save effect leaves the snapshot when the ledger is empty.
SaveEffectSkipsEmpty(loadedFlag, os, old) ==
  IF loadedFlag /\ os # <<>> THEN Stringify(os) ELSE old

\* The save effect (App.tsx:43-47) of a render that saw `loadedFlag` and
\* `os`; `old` is the stored snapshot before it.
SaveEffect(loadedFlag, os, old) ==
  IF loadedFlag THEN Stringify(os) ELSE old

\* The effects of the first render, in the order of the source: the load
\* effect (App.tsx:23-40) queues setOrders and setIsLoaded(true), then the
\* save effect of that render runs with the isLoaded and orders it saw.
MountEffects ==
  /\ ~isLoaded
  /\ ~pending
  /\ orders' = IF storage.kind = "null" \/ LoadThrows(storage)
               THEN orders ELSE MigratedOrders(Parse(storage))
  /\ isLoaded' = TRUE
  /\ storage' = SaveEffect(isLoaded, rendered, storage)
  /\ pending' = TRUE
  /\ Record([op |-> "mountEffects", saved |-> storage, raised |-> "none"])
  /\ UNCHANGED <<rendered, uuidCount, assigned, search>>

\* The render of the queued updates, and its save effect.
Render ==
  /\ pending
  /\ rendered' = orders
  /\ storage' = SaveEffect(isLoaded, orders, storage)
  /\ pending' = FALSE
  /\ Record([op |-> "render", raised |-> "none"])
  /\ UNCHANGED <<orders, isLoaded, uuidCount, assigned, search>>

\* handleAddOrder (App.tsx:55-64) up to its return: getNextOrderNumber reads
\* the `orders` of the render, setOrders(prev => ...) is queued.
HandleAddOrder(data) ==
  /\ isLoaded
  /\ ~(Falsy(data.item) \/ Falsy(data.client) \/ Falsy(data.section))
  /\ Len(orders) < MaxOrders
  /\ uuidCount < MaxIds
  /\ LET id       == RandomUUID(uuidCount)
         newOrder == NewOrder(id, data, rendered)
     IN /\ orders' = AddUpdater(newOrder, orders)
        /\ assigned' = [assigned EXCEPT ![newOrder.id] = @ + 1]
  /\ uuidCount' = uuidCount + 1
  /\ pending' = TRUE
  /\ Record([op |-> "add", data |-> data, raised |-> "none"])
  /\ UNCHANGED <<rendered, isLoaded, storage, search>>

\* handleStatusChange (App.tsx:66-70) up to its return.
HandleStatusChangeQueued(id, newStatus) ==
  /\ isLoaded
  /\ orders' = StatusUpdater(orders, id, newStatus)
  /\ pending' = TRUE
  /\ Record([op |-> "setStatus", id |-> id, status |-> newStatus,
             raised |-> "none"])
  /\ UNCHANGED <<rendered, isLoaded, storage, uuidCount, assigned, search>>

\* handleDeleteOrder (App.tsx:72-91) up to its return, confirmed.
HandleDeleteOrderQueued(id) ==
  /\ isLoaded
  /\ orders' = DeleteUpdater(orders, id)
  /\ pending' = TRUE
  /\ Record([op |-> "remove", id |-> id, confirmed |-> TRUE,
             raised |-> "none"])
  /\ UNCHANGED <<rendered, isLoaded, storage, uuidCount, assigned, search>>

BatchSnapshots == {NoSnapshot, SnapLegacy}

InitBatch ==
  /\ orders = <<>>
  /\ rendered = <<>>
  /\ isLoaded = FALSE
  /\ storage \in BatchSnapshots
  /\ uuidCount = IF storage.kind = "null" THEN 0 ELSE 2
  /\ assigned = [i \in Ids |-> IF i <= uuidCount THEN 1 ELSE 0]
  /\ lastOp = [op |-> "none", raised |-> "none"]
  /\ prevOrders = <<>>
  /\ searchClient = <<>>
  /\ searchOrderNumber = <<>>
  /\ searchStatus = ""
  /\ tripBase = {}
  /\ pending = FALSE

NextBatch ==
  \/ MountEffects
  \/ Render
  \/ \E data \in {FormNoQty} : HandleAddOrder(data)
  \/ \E id \in Ids : HandleStatusChangeQueued(id, "Concluído")
  \/ \E id \in Ids : HandleDeleteOrderQueued(id)

SpecBatch == InitBatch /\ [][NextBatch]_vars

\* ------------------------------------------------------------ loading
\* The last step was a mount that read a snapshot it could parse and map.
Loadable ==
  /\ lastOp.op = "mount"
  /\ lastOp.saved.kind = "json"
  /\ ~LoadThrows(lastOp.saved)

C12_ReloadSame ==
  [][(lastOp.op = "unmount" /\ lastOp'.op = "mount")
       => (orders' = prevOrders /\ storage' = storage)]_vars

\* A reload of what the first load of a status-less snapshot wrote.
C12_Witness ==
  /\ lastOp.op = "mount"
  /\ lastOp.saved = Stringify(orders)
  /\ Len(orders) = 2
  /\ \A i \in 1 .. 2 : Has(orders[i], "invoiceNumber") /\ orders[i].status = "Pendente"

\* C13: a mount that read a snapshot holding at least one record ends with
\* a ledger that is not empty and does not store an empty snapshot.
C13_PartialDataLoaded ==
  (/\ lastOp.op = "mount"
   /\ lastOp.saved.kind = "json"
   /\ \E i \in 1 .. Len(Parse(lastOp.saved)) : ~IsNull(Parse(lastOp.saved)[i]))
    => (orders # <<>> /\ storage # Stringify(<<>>))

\* C14: after an add, remove or setStatus whose save failed, the component
\* is still there with the ledger the handler produced, the view of that
\* ledger shows all of it, and the handlers can run.
C14_FailedSaveKeepsLedger ==
  ("saveFailed" \in DOMAIN lastOp) =>
    /\ isLoaded
    /\ orders = lastOp.updated
    /\ Len(FilteredOrders(orders, <<>>, <<>>, "")) = Len(lastOp.updated)

\* ------------------------------------------------------------ the view
\* Upper-case folding and containment, written for the statements below.
FoldChar(c) ==
  CASE c = "a" -> "A"
    [] c = "b" -> "B"
    [] c = "c" -> "C"
    [] OTHER   -> c

Fold(s) == [i \in 1 .. Len(s) |-> FoldChar(s[i])]

Contains(s, sub) ==
  \E i \in 0 .. Len(s) : \E j \in i .. Len(s) : SubSeq(s, i + 1, j) = sub

Shown == FilteredOrders(orders, searchClient, searchOrderNumber, searchStatus)

Passes(order) ==
  /\ Contains(Fold(order.client), Fold(searchClient))
  /\ searchOrderNumber = <<>> \/ Contains(order.orderNumber, searchOrderNumber)
  /\ searchStatus = "" \/ order.status = searchStatus

\* C15: the view holds exactly the records of the ledger whose client
\* contains searchClient ignoring case, whose order number contains
\* searchOrderNumber, and whose status is searchStatus, an empty search field
\* excluding nothing; each such record is in the view once.
C15_FilterIsConjunction ==
  /\ \A j \in 1 .. Len(orders) :
       Passes(orders[j]) <=> \E i \in 1 .. Len(Shown) : Shown[i] = orders[j]
  /\ \A i \in 1 .. Len(Shown) : \E j \in 1 .. Len(orders) : Shown[i] = orders[j]
  /\ Len(Shown) = Cardinality({j \in 1 .. Len(orders) : Passes(orders[j])})

\* The three filters are active on the ten orders: "1" keeps 10 and 1, "b"
\* keeps the clients "Ab" and "B", and only order 10 of them is "Concluído".
C15_Witness ==
  /\ lastOp.op = "search"
  /\ Len(orders) = 10
  /\ searchClient = <<"b">>
  /\ searchOrderNumber = <<"1">>
  /\ searchStatus = "Concluído"
  /\ Len(Shown) = 1
  /\ Shown[1].orderNumber = <<"1", "0">>
  /\ Shown[1].client = <<"A", "b">>

\* C16: the order numbers of the view, read as numbers, decrease strictly
\* from each row to the next.
C16_StrictlyDescending ==
  \A i \in 1 .. Len(Shown) - 1 :
    ParseInt(Shown[i].orderNumber) > ParseInt(Shown[i + 1].orderNumber)

\* C18: a change of a search field and an export leave the ledger and the
\* stored snapshot as they were.
C18_ViewAndExportFrame ==
  [][lastOp'.op \in {"search", "exportPDF", "exportOrder"}
       => (orders' = orders /\ storage' = storage)]_vars

\* A search that showed the view of a ledger which is not in the order of
\* the view.
C18_Witness ==
  /\ lastOp.op = "search"
  /\ Len(orders) = 3
  /\ Len(Shown) = 3
  /\ Shown # orders
  /\ orders = prevOrders

\* C19: three orders added for the clients A, B, C stand as C, B, A with the
\* numbers 3, 2, 1; removing B from them leaves C with 2 and A with 1; and
\* the search for the number "1" on that ledger shows A alone.
C19_Scenario ==
  LET IdsOf(os)     == [i \in 1 .. Len(os) |-> os[i].id]
      ClientsOf(os) == [i \in 1 .. Len(os) |-> os[i].client]
      NumbersOf(os) == [i \in 1 .. Len(os) |-> os[i].orderNumber]
      IsCBA(os) == /\ IdsOf(os) = <<3, 2, 1>>
                   /\ ClientsOf(os) = << <<"C">>, <<"B">>, <<"A">> >>
      IsCA(os)  == /\ IdsOf(os) = <<3, 1>>
                   /\ ClientsOf(os) = << <<"C">>, <<"A">> >>
  IN /\ IsCBA(orders) => NumbersOf(orders) = << <<"3">>, <<"2">>, <<"1">> >>
     /\ (lastOp.op = "remove" /\ lastOp.id = 2 /\ IsCBA(prevOrders))
          => (IsCA(orders) /\ NumbersOf(orders) = << <<"2">>, <<"1">> >>)
     /\ (/\ IsCA(orders)
         /\ searchOrderNumber = <<"1">>
         /\ searchClient = <<>>
         /\ searchStatus = "")
          => Shown = <<orders[2]>>

C19_Witness ==
  /\ lastOp.op = "search"
  /\ searchOrderNumber = <<"1">>
  /\ Len(orders) = 2
  /\ orders[1].id = 3 /\ orders[1].client = <<"C">> /\ orders[1].orderNumber = <<"2">>
  /\ orders[2].id = 1 /\ orders[2].client = <<"A">> /\ orders[2].orderNumber = <<"1">>
  /\ Len(Shown) = 1
  /\ Shown[1].client = <<"A">>

\* C20: whatever the status of an order of the ledger, handleStatusChange
\* can run on it with each of the four statuses, and the order has that
\* status afterwards.
C20_AnyTransition ==
  isLoaded =>
    \A i \in 1 .. Len(orders) : \A y \in OrderStatus :
      ENABLED (/\ HandleStatusChange(orders[i].id, y)
               /\ Len(orders') = Len(orders)
               /\ orders'[i].status = y)

\* An order left "Anulado" or "Concluído" for another status.
C20_Witness ==
  /\ lastOp.op = "setStatus"
  /\ \E i \in 1 .. Len(orders) :
       /\ orders[i].id = lastOp.id
       /\ prevOrders[i].status \in {"Anulado", "Concluído"}
       /\ orders[i].status = lastOp.status
       /\ orders[i].status # prevOrders[i].status

\* ------------------------------------------------------ the documents
\* The offsets of what a single-order page draws inside its frame, in
\* drawing order for the running-cursor page.
Drawn(page) ==
  <<page.infoY, page.labelY>> \o page.itemLinesY
    \o <<page.separatorY, page.clientY, page.quantityY>> \o page.organicY

FrameBottom(page) == page.frameTop + page.frameHeight

CursorPage == lastOp.op = "exportOrderCursor"

\* C21: on the running-cursor page of an item of three wrapped lines the
\* client row starts below the item's offset plus three line heights, and
\* the frame's bottom edge is at least the padding below everything drawn.
C21_ThreeLines ==
  (CursorPage /\ lastOp.page.lines = 3) =>
    /\ lastOp.page.clientY > lastOp.page.itemY + 3 * Mm(LineHeight)
    /\ \A k \in 1 .. Len(Drawn(lastOp.page)) :
         FrameBottom(lastOp.page) - Drawn(lastOp.page)[k] >= Mm(BoxPadding)

C21_Witness ==
  /\ CursorPage
  /\ lastOp.page.lines = 3
  /\ Len(lastOp.page.organicY) = 1
  /\ lastOp.page.itemLinesY[3] < lastOp.page.separatorY

\* C22: the frame of every single-order page starts at or below the banner
\* and holds everything the page draws for the order.
C22_FrameEncloses ==
  (lastOp.op \in {"exportOrderCursor", "exportOrderFixed"}) =>
    /\ lastOp.page.frameTop >= lastOp.page.bannerBottom
    /\ \A k \in 1 .. Len(Drawn(lastOp.page)) :
         /\ Drawn(lastOp.page)[k] >= lastOp.page.frameTop
         /\ Drawn(lastOp.page)[k] <= FrameBottom(lastOp.page)

\* The separator is between the last item line and the client row, and the
\* offsets never decrease in drawing order.
CursorAdvances(page) ==
  /\ page.itemLinesY[page.lines] <= page.separatorY
  /\ page.separatorY <= page.clientY
  /\ \A k \in 1 .. Len(Drawn(page)) - 1 : Drawn(page)[k] <= Drawn(page)[k + 1]

\* C27 (as stated): on the running-cursor page of an item of n wrapped lines
\* the client row starts below the item's offset plus n line heights, the
\* separator is between the last item line and that row, and the offsets
\* never decrease.
C27_LineHeightPerLine ==
  CursorPage =>
    /\ lastOp.page.clientY > lastOp.page.itemY + lastOp.page.lines * Mm(LineHeight)
    /\ CursorAdvances(lastOp.page)

\* C27 (amended): the item of n wrapped lines is given n times the text line
\* height of 6: the client row starts at the item's offset plus that, plus
\* one line height and the separator gap; the separator is between the last
\* item line and that row, and the offsets never decrease.
C27_TextHeightPerLine ==
  CursorPage =>
    /\ lastOp.page.clientY =
         lastOp.page.itemY + lastOp.page.lines * Mm(TextLineHeight)
           + Mm(LineHeight) + Mm(SeparatorGap)
    /\ lastOp.page.clientY > lastOp.page.itemY + lastOp.page.lines * Mm(TextLineHeight)
    /\ CursorAdvances(lastOp.page)

\* Twelve wrapped lines: the client row is not below the item's offset plus
\* twelve line heights.
C27_Witness ==
  /\ CursorPage
  /\ lastOp.page.lines = 12
  /\ lastOp.page.clientY <= lastOp.page.itemY + 12 * Mm(LineHeight)
  /\ lastOp.page.clientY > lastOp.page.itemY + 12 * Mm(TextLineHeight)

C24_ReportRows ==
  lastOp.op = "exportPDF" =>
    /\ lastOp.doc.title = "Relatório de Encomendas Internas"
    /\ lastOp.doc.generated.label = "Gerado em: "
    /\ Len(lastOp.doc.head) = 9
    /\ Len(lastOp.doc.body) = Len(Shown)
    /\ \A i \in 1 .. Len(Shown) :
         /\ lastOp.doc.body[i].number = Shown[i].orderNumber
         /\ lastOp.doc.body[i].item = Shown[i].item
         /\ lastOp.doc.body[i].quantity = Shown[i].quantity
         /\ lastOp.doc.body[i].client = Shown[i].client
         /\ lastOp.doc.body[i].commercial = Shown[i].commercial
         /\ lastOp.doc.body[i].section = Shown[i].section
         /\ lastOp.doc.body[i].status = Shown[i].status
         /\ lastOp.doc.body[i].organic = "Sim" <=> Shown[i].isOrganicRecycled

\* A report of a view that leaves orders of the ledger out.
C24_Witness ==
  /\ lastOp.op = "exportPDF"
  /\ Len(orders) = 10
  /\ Len(lastOp.doc.body) = 2
  /\ searchOrderNumber = <<"1">>
  /\ lastOp.doc.body[1].number = <<"1", "0">>
  /\ lastOp.doc.body[2].number = <<"1">>

\* C30: in every state, the status of every order of the ledger is one of
\* the four values of OrderStatus.
C30_StatusInEnum ==
  \A i \in 1 .. Len(orders) :
    Has(orders[i], "status") /\ orders[i].status \in OrderStatus

PassesWith(order, sc, sn, ss) ==
  /\ Contains(Fold(order.client), Fold(sc))
  /\ sn = <<>> \/ Contains(order.orderNumber, sn)
  /\ ss = "" \/ order.status = ss

\* The records of `os` that pass, in the order of `os`.
RECURSIVE SubLedger(_, _, _, _)
SubLedger(os, sc, sn, ss) ==
  IF os = <<>> THEN <<>>
  ELSE IF PassesWith(Head(os), sc, sn, ss)
       THEN <<Head(os)>> \o SubLedger(Tail(os), sc, sn, ss)
       ELSE SubLedger(Tail(os), sc, sn, ss)

\* C29: for a ledger made from the empty one by adding, removing and setting
\* the status, and for every client, order number and status filter, the
\* view is the matching records of the ledger in the ledger's order, and no
\* record is in it twice.
C29_ViewIsSubLedger ==
  \A sc \in ClientQueries, sn \in NumberQueries, ss \in StatusQueries :
    LET view == FilteredOrders(orders, sc, sn, ss)
    IN /\ view = SubLedger(orders, sc, sn, ss)
       /\ \A i, j \in 1 .. Len(view) : view[i].id = view[j].id => i = j

\* An order was added after a removal, and each of three filters keeps one
\* of the two orders of the ledger.
C29_Witness ==
  /\ Len(orders) = 2
  /\ lastOp.op = "add"
  /\ uuidCount = 3
  /\ Len(FilteredOrders(orders, <<"b">>, <<>>, "")) = 1
  /\ Len(FilteredOrders(orders, <<>>, <<"1">>, "")) = 1
  /\ Len(FilteredOrders(orders, <<>>, <<>>, "Concluído")) = 1

\* C25: the order number given by an add is the size of the ledger the order
\* was put into plus one, and no two orders of the ledger have the same
\* number, also when the handlers ran before the render of an earlier one.
C25_NumberFromLatestState ==
  /\ lastOp.op = "add" => orders[1].orderNumber = ToString(Len(prevOrders) + 1)
  /\ \A i, j \in 1 .. Len(orders) :
       orders[i].orderNumber = orders[j].orderNumber => i = j

\* C26: when the load has been done and no render is pending, the stored
\* snapshot is the serialized ledger.
C26_QuiescentSaved ==
  (isLoaded /\ ~pending) => storage = Stringify(orders)

\* The render after an add that followed a removal: one order is left.
C26_Witness ==
  /\ isLoaded
  /\ ~pending
  /\ lastOp.op = "render"
  /\ uuidCount = 3
  /\ Len(orders) = 1
  /\ storage = Stringify(orders)

\* C28: the stored snapshot changes only in a step after which isLoaded
\* holds, and then to the serialized ledger; the render that follows the
\* effects of the mount on a snapshot writes the migrated orders of it.
C28_NoSaveBeforeLoad ==
  [][/\ storage' # storage => (isLoaded' /\ storage' = Stringify(orders'))
     /\ (lastOp.op = "mountEffects" /\ lastOp'.op = "render"
         /\ lastOp.saved.kind = "json")
          => storage' = Stringify(MigratedOrders(Parse(lastOp.saved)))]_vars

\* The first write after the mount on the snapshot of the earlier build.
C28_Witness ==
  /\ lastOp.op = "render"
  /\ uuidCount = 2
  /\ storage = Stringify(MigratedOrders(Parse(SnapLegacy)))
  /\ storage # SnapLegacy
  /\ orders = Parse(storage)

====
